---- MODULE Spec2Model ----
(***************************************************************************)
(* Model of app/services/base.py: the TransfermarktBase dataclass.         *)
(*                                                                         *)
(* A Python str is a sequence of one-character strings, a Python list of   *)
(* str is a sequence of such sequences.  A Python value that may be either *)
(* (the local `element` of get_text_by_xpath) is a record [t, v] whose     *)
(* tag t is "list" or "str".  An Optional argument is a record             *)
(* [some |-> FALSE] (None) or [some |-> TRUE, v |-> x].                     *)
(***************************************************************************)
EXTENDS Integers, Sequences, FiniteSets, TLC

VARIABLES URL, page, response, pc, call, trace, result

vars == <<URL, page, response, pc, call, trace, result>>

(***************************************************************************)
(* Bounds of the model.                                                    *)
(***************************************************************************)
\* largest index / position argument tried (the smallest is -1)
MaxIdx == 3
\* largest number of matches of the content path in a generated tree
MaxMatches == 3

None == [some |-> FALSE]
Some(x) == [some |-> TRUE, v |-> x]

Max(a, b) == IF a >= b THEN a ELSE b
Min(a, b) == IF a <= b THEN a ELSE b

(***************************************************************************)
(* Python built-ins used by the code.                                      *)
(***************************************************************************)
\* seq[i] for a list or a str: negative i counts from the end; the value is
\* [ok |-> FALSE] where Python raises IndexError.
PyIndex(s, i) ==
    LET n == Len(s)
        k == IF i < 0 THEN i + n ELSE i
    IN  IF 0 <= k /\ k < n THEN [ok |-> TRUE, v |-> s[k + 1]] ELSE [ok |-> FALSE]

\* the bound of a slice, clamped into 0..n as Python does
PyClamp(i, n) == IF i < 0 THEN Max(i + n, 0) ELSE Min(i, n)

\* seq[lo:hi] with lo, hi Optional ints
PySlice(s, lo, hi) ==
    LET n == Len(s)
        a == IF lo.some THEN PyClamp(lo.v, n) ELSE 0
        b == IF hi.some THEN PyClamp(hi.v, n) ELSE n
    IN  IF b <= a THEN <<>> ELSE SubSeq(s, a + 1, b)

\* sep.join(parts), parts a sequence of str
RECURSIVE PyJoin(_, _)
PyJoin(sep, parts) ==
    IF parts = <<>> THEN <<>>
    ELSE IF Len(parts) = 1 THEN parts[1]
    ELSE parts[1] \o sep \o PyJoin(sep, Tail(parts))

\* s.split(ch)[-1]: what follows the last ch, the whole of s when it has none
RECURSIVE PySplitLast(_, _)
PySplitLast(s, ch) ==
    IF s = <<>> THEN <<>>
    ELSE IF s[Len(s)] = ch THEN <<>>
    ELSE PySplitLast(SubSeq(s, 1, Len(s) - 1), ch) \o <<s[Len(s)]>>

\* str.strip() over the model's only whitespace character
RECURSIVE StripLeft(_)
StripLeft(s) == IF s # <<>> /\ s[1] = " " THEN StripLeft(Tail(s)) ELSE s

RECURSIVE StripRight(_)
StripRight(s) ==
    IF s # <<>> /\ s[Len(s)] = " " THEN StripRight(SubSeq(s, 1, Len(s) - 1)) ELSE s

PyStrip(s) == StripRight(StripLeft(s))

Digits == {"0", "1", "2", "3", "4", "5", "6", "7", "8", "9"}

DigitVal(c) ==
    CASE c = "0" -> 0 [] c = "1" -> 1 [] c = "2" -> 2 [] c = "3" -> 3 [] c = "4" -> 4
      [] c = "5" -> 5 [] c = "6" -> 6 [] c = "7" -> 7 [] c = "8" -> 8 [] c = "9" -> 9

RECURSIVE DecVal(_)
DecVal(s) == IF s = <<>> THEN 0 ELSE 10 * DecVal(SubSeq(s, 1, Len(s) - 1)) + DigitVal(s[Len(s)])

\* int(s): surrounding whitespace is ignored, the rest must be decimal digits;
\* [ok |-> FALSE] where Python raises ValueError.
PyInt(s) ==
    LET d == PyStrip(s)
    IN  IF d # <<>> /\ \A i \in 1..Len(d) : d[i] \in Digits
        THEN [ok |-> TRUE, v |-> DecVal(d)]
        ELSE [ok |-> FALSE]

(***************************************************************************)
(* app.utils.utils.trim: surrounding whitespace removed, inner runs of     *)
(* whitespace reduced to one space.                                        *)
(***************************************************************************)
RECURSIVE Collapse(_)
Collapse(s) ==
    IF Len(s) < 2 THEN s
    ELSE IF s[1] = " " /\ s[2] = " " THEN Collapse(Tail(s))
    ELSE <<s[1]>> \o Collapse(Tail(s))

trim(s) == Collapse(PyStrip(s))

(***************************************************************************)
(* Texts and documents.  A document gives, for each path expression the    *)
(* model queries, the text nodes it matches in document order.  The two    *)
(* parsing stages keep that content: BeautifulSoup wraps the payload and   *)
(* etree.HTML re-parses its serialisation into the tree that xpath()       *)
(* evaluates.                                                              *)
(***************************************************************************)
TxtA == <<"a">>
TxtBC == <<" ", "b", " ", " ", "c", " ">>
TxtBlank == <<" ">>
TxtB == <<"b">>
TxtC == <<"c">>
TxtD == <<" ", "d">>
RawTexts == {TxtA, TxtBC, TxtBlank}

HrefPage7 == <<"/", "s", "/", "2", "3", "?", "p", "=", "7">>
HrefSlash12 == <<"/", "p", "/", "1", "2">>
HrefPage1 == <<"?", "p", "=", "1">>
HrefPad2 == <<" ", "?", "p", "=", "2", " ">>
HrefEqSlash == <<"?", "r", "=", "1", "/", "3">>
HrefBad == <<"?", "p", "=", "x">>

\* the path expression of the content queries
ContentPath == <<"//td", "text()">>

\* app.utils.xpath.Pagination: the "last page" and "active page" locators
PAGE_NUMBER_LAST == <<"//li[last-page]", "@href">>
PAGE_NUMBER_ACTIVE == <<"//li[active]", "@href">>

NoBase == <<>>
DivBase == <<"//div[pager]">>
Bases == {NoBase, DivBase}

Doc(p, base, last, active) == [p |-> p, base |-> base, last |-> last, active |-> active]

\* all lists of at most n raw texts
RECURSIVE ListsUpTo(_)
ListsUpTo(n) ==
    IF n = 0 THEN {<<>>}
    ELSE LET shorter == ListsUpTo(n - 1)
         IN  shorter \cup {Append(l, t) : l \in {x \in shorter : Len(x) = n - 1}, t \in RawTexts}

ContentDocs == {Doc(p, NoBase, <<>>, <<>>) : p \in ListsUpTo(MaxMatches)}

\* the three- and four-element matches of the documented examples
ExampleDocs ==
    {Doc(<<TxtA, TxtB, TxtC>>, NoBase, <<>>, <<>>),
     Doc(<<TxtA, TxtB, TxtC, TxtD>>, NoBase, <<>>, <<>>)}

LastLists ==
    {<<>>, <<TxtBlank>>, <<HrefPage7>>, <<HrefPage1>>, <<HrefBad>>,
     <<HrefSlash12, HrefPage7>>, <<TxtBlank, HrefEqSlash>>}
ActiveLists == {<<>>, <<HrefPad2>>, <<HrefBad>>}

PaginationDocs ==
    {Doc(<<>>, NoBase, l, a) : l \in LastLists, a \in ActiveLists}
    \cup {Doc(<<TxtA>>, DivBase, l, a) : l \in {<<>>, <<HrefPage7>>}, a \in {<<>>, <<HrefPage1>>}}

\* the payloads the upstream site serves in the life-cycle specification
Markups ==
    {Doc(<<TxtA, TxtBC, TxtBlank>>, NoBase, <<HrefPage7>>, <<HrefPage1>>),
     Doc(<<TxtBlank>>, NoBase, <<>>, <<HrefPad2>>),
     Doc(<<>>, DivBase, <<HrefBad>>, <<>>)}

Addresses == {"https://tm/a", "https://tm/b"}

(***************************************************************************)
(* The upstream site and the requests library.                             *)
(***************************************************************************)
StatusCodes == {100, 200, 204, 301, 399, 400, 404, 499, 500, 503, 599, 600}

Reason(c) == IF c = 200 THEN "OK" ELSE IF c = 404 THEN "Not Found" ELSE "-"

\* what can go wrong while the request is sent
Causes == {"redirect_loop", "dns", "refused", "reset", "timeout", "bad_url", "raw_socket"}
ConnectionCauses == {"dns", "refused", "reset"}

\* the exception requests.get raises for a cause
Raised(cause) ==
    CASE cause = "redirect_loop" -> "requests.TooManyRedirects"
      [] cause \in ConnectionCauses -> "requests.ConnectionError"
      [] cause = "timeout" -> "requests.ReadTimeout"
      [] cause = "bad_url" -> "requests.MissingSchema"
      [] cause = "raw_socket" -> "builtins.ConnectionResetError"

\* the classes an exception is an instance of
Mro(exc) ==
    CASE exc = "requests.TooManyRedirects" ->
            {exc, "requests.RequestException", "builtins.OSError", "builtins.Exception"}
      [] exc = "requests.ConnectionError" ->
            {exc, "requests.RequestException", "builtins.OSError", "builtins.Exception"}
      [] exc = "requests.ReadTimeout" ->
            {exc, "requests.Timeout", "requests.RequestException", "builtins.OSError",
             "builtins.Exception"}
      [] exc = "requests.MissingSchema" ->
            {exc, "requests.RequestException", "builtins.OSError", "builtins.ValueError",
             "builtins.Exception"}
      [] exc = "builtins.ConnectionResetError" ->
            {exc, "builtins.ConnectionError", "builtins.OSError", "builtins.Exception"}

Upstream ==
    {[kind |-> "raise", cause |-> c, exc |-> Raised(c), msg |-> c] : c \in Causes}
    \cup {[kind |-> "response", status_code |-> c, reason |-> Reason(c), content |-> m] :
            c \in StatusCodes, m \in Markups}

\* time.sleep(random.uniform(1.5, 3.0)), in tenths of a second
DelayMin == 15
DelayMax == 30
Delays == {DelayMin, DelayMax}

\* requests.get(..., timeout=15)
Timeout == 15

HTTPException(code, detail) == [kind |-> "HTTPException", status_code |-> code, detail |-> detail]

Pending == [kind |-> "pending"]
NoCall == [op |-> "none"]

(***************************************************************************)
(* make_request: the except clauses and the status checks.                 *)
(***************************************************************************)
\* a variant whose server-error range has no upper end
make_request_outcome_ge500(url, o) ==
    IF o.kind = "raise"
    THEN IF "requests.TooManyRedirects" \in Mro(o.exc)
         THEN HTTPException(404, <<"Not found for url: ", url>>)
         ELSE IF "builtins.ConnectionError" \in Mro(o.exc)
         THEN HTTPException(500, <<"Connection error for url: ", url>>)
         ELSE HTTPException(500, <<"Error for url: ", url, ". ", o.msg>>)
    ELSE IF 400 <= o.status_code /\ o.status_code < 500
         THEN HTTPException(o.status_code, <<"Client Error. ", o.reason, " for url: ", url>>)
         ELSE IF 500 <= o.status_code
         THEN HTTPException(o.status_code, <<"Server Error. ", o.reason, " for url: ", url>>)
         ELSE [kind |-> "Response", status_code |-> o.status_code, reason |-> o.reason,
               content |-> o.content]

\* The name ConnectionError of line 52 is the built-in class: line 10 imports
\* only Response and TooManyRedirects from requests.
make_request_outcome(url, o) ==
    IF o.kind = "raise"
    THEN IF "requests.TooManyRedirects" \in Mro(o.exc)
         THEN HTTPException(404, <<"Not found for url: ", url>>)
         ELSE IF "builtins.ConnectionError" \in Mro(o.exc)
         THEN HTTPException(500, <<"Connection error for url: ", url>>)
         ELSE HTTPException(500, <<"Error for url: ", url, ". ", o.msg>>)
    ELSE IF 400 <= o.status_code /\ o.status_code < 500
         THEN HTTPException(o.status_code, <<"Client Error. ", o.reason, " for url: ", url>>)
         ELSE IF 500 <= o.status_code /\ o.status_code < 600
         THEN HTTPException(o.status_code, <<"Server Error. ", o.reason, " for url: ", url>>)
         ELSE [kind |-> "Response", status_code |-> o.status_code, reason |-> o.reason,
               content |-> o.content]

\* BeautifulSoup(markup=response.content, features="html.parser")
request_url_bsoup(resp) == [soup |-> resp.content]

\* etree.HTML(str(bsoup))
convert_bsoup_to_page(bsoup) == [root |-> bsoup.soup]

\* self.page.xpath(xpath)
XPath(tree, xpath) ==
    LET d == tree.root
    IN  IF xpath = ContentPath THEN d.p
        ELSE IF xpath = d.base \o PAGE_NUMBER_LAST THEN d.last
        ELSE IF xpath = d.base \o PAGE_NUMBER_ACTIVE THEN d.active
        ELSE <<>>

(***************************************************************************)
(* The extraction methods.                                                 *)
(***************************************************************************)
RetNone == [kind |-> "None"]
RetStr(s) == [kind |-> "str", v |-> s]
RetList(l) == [kind |-> "list", v |-> l]
RetInt(n) == [kind |-> "int", v |-> n]
Raise(exc) == [kind |-> "raise", exc |-> exc]

\* [trim(e) for e in elements]
RECURSIVE TrimAll(_)
TrimAll(elements) ==
    IF elements = <<>> THEN <<>> ELSE <<trim(Head(elements))>> \o TrimAll(Tail(elements))

\* [trim(e) for e in elements if trim(e)]
RECURSIVE TrimNonEmpty(_)
TrimNonEmpty(elements) ==
    IF elements = <<>> THEN <<>>
    ELSE (IF trim(Head(elements)) # <<>> THEN <<trim(Head(elements))>> ELSE <<>>)
         \o TrimNonEmpty(Tail(elements))

\* a variant that drops the empty strings whatever remove_empty says
get_list_by_xpath_value_drop(tree, xpath, remove_empty) ==
    RetList(TrimNonEmpty(XPath(tree, xpath)))

\* the value of get_list_by_xpath on a tree
get_list_by_xpath_value(tree, xpath, remove_empty) ==
    LET elements == XPath(tree, xpath)
        elements_valid == IF remove_empty THEN TrimNonEmpty(elements) ELSE TrimAll(elements)
    IN  RetList(IF elements_valid # <<>> THEN elements_valid ELSE <<>>)

\* the local `element`: a list of str or a str, or the IndexError that ended the call
Elem(t, v) == [ok |-> TRUE, t |-> t, v |-> v]
IndexError == [ok |-> FALSE]

\* element[i]: an item of a list, a one-character str of a str
PyGetItem(e, i) ==
    LET r == PyIndex(e.v, i)
    IN  IF ~r.ok THEN IndexError
        ELSE IF e.t = "list" THEN Elem("str", r.v) ELSE Elem("str", <<r.v>>)

\* element[lo:hi]: a slice of a list is a list, a slice of a str is a str
PyGetSlice(e, lo, hi) == Elem(e.t, PySlice(e.v, lo, hi))

\* what `for e in element` yields
Items(e) == IF e.t = "list" THEN e.v ELSE [i \in 1..Len(e.v) |-> <<e.v[i]>>]

\* a variant in which an at_index out of range leaves nothing instead of raising
AfterIloc_swallow(e, iloc) ==
    IF iloc.some
    THEN IF PyGetItem(e, iloc.v).ok THEN PyGetItem(e, iloc.v) ELSE Elem("list", <<>>)
    ELSE e

\* lines 128-129
AfterIloc(e, iloc) == IF iloc.some THEN PyGetItem(e, iloc.v) ELSE e

\* lines 131-132
AfterRange(e, iloc_from, iloc_to) ==
    IF e.ok /\ iloc_from.some /\ iloc_to.some THEN PyGetSlice(e, iloc_from, iloc_to) ELSE e

\* lines 134-135
AfterTo(e, iloc_to) == IF e.ok /\ iloc_to.some THEN PyGetSlice(e, None, iloc_to) ELSE e

\* lines 137-138
AfterFrom(e, iloc_from) == IF e.ok /\ iloc_from.some THEN PyGetSlice(e, iloc_from, None) ELSE e

\* `element` when line 140 is reached (lines 125-138)
Working(matches, iloc, iloc_from, iloc_to) ==
    AfterFrom(AfterTo(AfterRange(AfterIloc(Elem("list", TrimNonEmpty(matches)), iloc),
                                 iloc_from, iloc_to),
                      iloc_to),
              iloc_from)

\* a variant that tests the separator for truth, so that "" counts as absent
JoinOrPos_truthy(w, pos, join_str) ==
    IF ~w.ok THEN Raise("IndexError")
    ELSE IF join_str.some /\ join_str.v # <<>> THEN RetStr(PyJoin(join_str.v, TrimAll(Items(w))))
    ELSE LET r == PyGetItem(w, pos)
         IN  IF r.ok THEN RetStr(trim(r.v)) ELSE RetNone

\* lines 140-146
JoinOrPos(w, pos, join_str) ==
    IF ~w.ok THEN Raise("IndexError")
    ELSE IF join_str.some THEN RetStr(PyJoin(join_str.v, TrimAll(Items(w))))
    ELSE LET r == PyGetItem(w, pos)
         IN  IF r.ok THEN RetStr(trim(r.v)) ELSE RetNone

\* the value of get_text_by_xpath on a tree
get_text_by_xpath_value(tree, xpath, pos, iloc, iloc_from, iloc_to, join_str) ==
    LET element == XPath(tree, xpath)
    IN  IF element = <<>> THEN RetNone
        ELSE JoinOrPos(Working(element, iloc, iloc_from, iloc_to), pos, join_str)

\* `if url_page:` / `if not ...:` on an Optional[str]
Truthy(r) == r.kind = "str" /\ r.v # <<>>

\* int(url_page.split("=")[-1].split("/")[-1])
PageNumber(url_page) ==
    LET n == PyInt(PySplitLast(PySplitLast(url_page, "="), "/"))
    IN  IF n.ok THEN RetInt(n.v) ELSE Raise("ValueError")

\* a variant that falls back to the next locator, then to 1, on an unparseable text
get_last_page_number_value_lenient(tree, xpath_base) ==
    LET last == get_text_by_xpath_value(tree, xpath_base \o PAGE_NUMBER_LAST, 0, None, None, None, None)
        active == get_text_by_xpath_value(tree, xpath_base \o PAGE_NUMBER_ACTIVE, 0, None, None, None, None)
    IN  IF Truthy(last) /\ PageNumber(last.v).kind = "int" THEN PageNumber(last.v)
        ELSE IF Truthy(active) /\ PageNumber(active.v).kind = "int" THEN PageNumber(active.v)
        ELSE RetInt(1)

\* the value of get_last_page_number on a tree
get_last_page_number_value(tree, xpath_base) ==
    LET last == get_text_by_xpath_value(tree, xpath_base \o PAGE_NUMBER_LAST, 0, None, None, None, None)
        active == get_text_by_xpath_value(tree, xpath_base \o PAGE_NUMBER_ACTIVE, 0, None, None, None, None)
    IN  IF Truthy(last) THEN PageNumber(last.v)
        ELSE IF Truthy(active) THEN PageNumber(active.v)
        ELSE RetInt(1)

\* the value of raise_exception_if_not_found on a tree
raise_exception_if_not_found_value(tree, url, xpath) ==
    IF ~Truthy(get_text_by_xpath_value(tree, xpath, 0, None, None, None, None))
    THEN HTTPException(404, <<"Invalid request (url: ", url, ")">>)
    ELSE RetNone

(***************************************************************************)
(* The instance.                                                           *)
(***************************************************************************)
Idx == (-1)..MaxIdx
OptIdx == {None} \cup {Some(i) : i \in Idx}
OptSep == {None, Some(<<>>), Some(<<"-">>)}
OptUrl == {None, Some(""), Some("https://tm/other")}
QueryPaths == {ContentPath}

\* After construction: the bound address is set, page is None, response is {}.
Init ==
    /\ URL \in Addresses
    /\ page = None
    /\ response = <<>>
    /\ pc = "idle"
    /\ call = NoCall
    /\ trace = <<>>
    /\ result = Pending

\* An instance whose page holds the tree of a fetched document.
InitExtract ==
    /\ URL \in {"https://tm/a"}
    /\ page \in {Some(convert_bsoup_to_page(request_url_bsoup([content |-> d]))) :
                    d \in ContentDocs \cup ExampleDocs \cup PaginationDocs}
    /\ response = <<>>
    /\ pc = "idle"
    /\ call = NoCall
    /\ trace = <<>>
    /\ result = Pending

\* make_request(url): line 31
make_request_call(url) ==
    /\ pc = "idle"
    /\ call' = [op |-> "make_request", arg |-> url,
                url |-> IF url.some /\ url.v # "" THEN url.v ELSE URL]
    /\ pc' = "sleep"
    /\ trace' = <<>>
    /\ result' = Pending
    /\ UNCHANGED <<URL, page, response>>

\* request_url_page(): request_url_bsoup() calls make_request() on the bound address
request_url_page_call ==
    /\ pc = "idle"
    /\ call' = [op |-> "request_url_page", arg |-> None, url |-> URL]
    /\ pc' = "sleep"
    /\ trace' = <<>>
    /\ result' = Pending
    /\ UNCHANGED <<URL, page, response>>

\* a page scraper's `self.page = self.request_url_page()`
fetch_and_parse_call ==
    /\ pc = "idle"
    /\ call' = [op |-> "fetch_and_parse", arg |-> None, url |-> URL]
    /\ pc' = "sleep"
    /\ trace' = <<>>
    /\ result' = Pending
    /\ UNCHANGED <<URL, page, response>>

\* line 46
make_request_sleep ==
    /\ pc = "sleep"
    /\ \E d \in Delays : trace' = Append(trace, [ev |-> "sleep", tenths |-> d])
    /\ pc' = "get"
    /\ UNCHANGED <<URL, page, response, call, result>>

\* a variant that sends the request again after a transport failure
make_request_get_retry ==
    /\ pc = "get"
    /\ \E o \in Upstream :
          LET r == make_request_outcome(call.url, o)
          IN  /\ trace' = Append(trace, [ev |-> "get", url |-> call.url, timeout |-> Timeout,
                                         outcome |-> o])
              /\ result' = r
              /\ pc' = IF o.kind = "raise" /\ Len(trace) < 2 THEN "get"
                       ELSE IF r.kind = "Response" /\ call.op # "make_request" THEN "parse"
                       ELSE "done"
    /\ UNCHANGED <<URL, page, response, call>>

\* lines 48-67: the request, the except clauses, the status checks
make_request_get ==
    /\ pc = "get"
    /\ \E o \in Upstream :
          LET r == make_request_outcome(call.url, o)
          IN  /\ trace' = Append(trace, [ev |-> "get", url |-> call.url, timeout |-> Timeout,
                                         outcome |-> o])
              /\ result' = r
              /\ pc' = IF r.kind = "Response" /\ call.op # "make_request" THEN "parse"
                       ELSE "done"
    /\ UNCHANGED <<URL, page, response, call>>

\* lines 73-74 and 87-88: the two parsing stages, the tree is returned
request_url_page_return ==
    /\ pc = "parse"
    /\ result' = [kind |-> "ElementTree",
                  tree |-> convert_bsoup_to_page(request_url_bsoup(result))]
    /\ pc' = IF call.op = "fetch_and_parse" THEN "assign" ELSE "done"
    /\ UNCHANGED <<URL, page, response, call, trace>>

\* the scraper's assignment of the returned tree to self.page
fetch_and_parse_assign ==
    /\ pc = "assign"
    /\ page' = Some(result.tree)
    /\ pc' = "done"
    /\ UNCHANGED <<URL, response, call, trace, result>>

\* a variant that stores the trimmed matches back into the tree
get_list_by_xpath_caching(xpath, remove_empty) ==
    /\ pc = "idle"
    /\ call' = [op |-> "get_list_by_xpath", xpath |-> xpath, remove_empty |-> remove_empty]
    /\ result' = IF page.some THEN get_list_by_xpath_value(page.v, xpath, remove_empty)
                 ELSE Raise("AttributeError")
    /\ page' = IF page.some /\ xpath = ContentPath
               THEN Some([root |-> [page.v.root EXCEPT !.p = result'.v]])
               ELSE page
    /\ pc' = "done"
    /\ UNCHANGED <<URL, response, trace>>

\* lines 97-106
get_list_by_xpath(xpath, remove_empty) ==
    /\ pc = "idle"
    /\ call' = [op |-> "get_list_by_xpath", xpath |-> xpath, remove_empty |-> remove_empty]
    /\ result' = IF page.some THEN get_list_by_xpath_value(page.v, xpath, remove_empty)
                 ELSE Raise("AttributeError")
    /\ pc' = "done"
    /\ UNCHANGED <<URL, page, response, trace>>

\* lines 108-146
get_text_by_xpath(xpath, pos, iloc, iloc_from, iloc_to, join_str) ==
    /\ pc = "idle"
    /\ call' = [op |-> "get_text_by_xpath", xpath |-> xpath, pos |-> pos, iloc |-> iloc,
                iloc_from |-> iloc_from, iloc_to |-> iloc_to, join_str |-> join_str]
    /\ result' = IF page.some
                 THEN get_text_by_xpath_value(page.v, xpath, pos, iloc, iloc_from, iloc_to, join_str)
                 ELSE Raise("AttributeError")
    /\ pc' = "done"
    /\ UNCHANGED <<URL, page, response, trace>>

\* lines 90-95
raise_exception_if_not_found(xpath) ==
    /\ pc = "idle"
    /\ call' = [op |-> "raise_exception_if_not_found", xpath |-> xpath]
    /\ result' = IF page.some THEN raise_exception_if_not_found_value(page.v, URL, xpath)
                 ELSE Raise("AttributeError")
    /\ pc' = "done"
    /\ UNCHANGED <<URL, page, response, trace>>

\* lines 148-156
get_last_page_number(xpath_base) ==
    /\ pc = "idle"
    /\ call' = [op |-> "get_last_page_number", xpath_base |-> xpath_base]
    /\ result' = IF page.some THEN get_last_page_number_value(page.v, xpath_base)
                 ELSE Raise("AttributeError")
    /\ pc' = "done"
    /\ UNCHANGED <<URL, page, response, trace>>

\* the call is over: its value or exception has gone to the caller
Return ==
    /\ pc = "done"
    /\ pc' = "idle"
    /\ call' = NoCall
    /\ trace' = <<>>
    /\ result' = Pending
    /\ UNCHANGED <<URL, page, response>>

\* the public extraction methods, called with any arguments while no call is in progress
ListCall == pc = "idle" /\ \E x \in QueryPaths, r \in BOOLEAN : get_list_by_xpath(x, r)

TextCall ==
    /\ pc = "idle"
    /\ \E x \in QueryPaths, pos \in Idx, iloc \in OptIdx, f \in OptIdx, t \in OptIdx, j \in OptSep :
          get_text_by_xpath(x, pos, iloc, f, t, j)

RequireCall == pc = "idle" /\ \E x \in QueryPaths : raise_exception_if_not_found(x)

LastPageCall == pc = "idle" /\ \E b \in Bases : get_last_page_number(b)

Extract == ListCall \/ TextCall \/ RequireCall \/ LastPageCall

Fetch ==
    \/ \E u \in OptUrl : make_request_call(u)
    \/ request_url_page_call
    \/ fetch_and_parse_call
    \/ make_request_sleep
    \/ make_request_get
    \/ request_url_page_return
    \/ fetch_and_parse_assign

Next == Fetch \/ Extract \/ Return

NextExtract == Extract \/ Return

Spec == Init /\ [][Next]_vars

SpecExtract == InitExtract /\ [][NextExtract]_vars

(***************************************************************************)
(* Properties.                                                             *)
(***************************************************************************)
FetchOps == {"make_request", "request_url_page", "fetch_and_parse"}

\* make_request has returned or raised and its result is still in `result`
MakeRequestOver ==
    /\ call.op \in FetchOps
    /\ pc \in {"parse", "done"}
    /\ result.kind \in {"HTTPException", "Response"}

\* what the request of the current call came back with
Outcome == trace[Len(trace)].outcome

\* C1: for every upstream status code c, make_request raises a client error with
\* code c when 400 <= c < 500, a server error with code c when 500 <= c < 600, and
\* returns the response otherwise.
C1_StatusClassification ==
    (MakeRequestOver /\ Outcome.kind = "response") =>
        LET c == Outcome.status_code
        IN  /\ (400 <= c /\ c < 500) =>
                  /\ result.kind = "HTTPException"
                  /\ result.status_code = c
                  /\ result.detail[1] = "Client Error. "
            /\ (500 <= c /\ c < 600) =>
                  /\ result.kind = "HTTPException"
                  /\ result.status_code = c
                  /\ result.detail[1] = "Server Error. "
            /\ (c < 400 \/ c >= 600) =>
                  /\ result.kind = "Response"
                  /\ result.status_code = c
                  /\ result.content = Outcome.content

C1_Witness ==
    /\ MakeRequestOver
    /\ Outcome.kind = "response"
    /\ Outcome.status_code = 599
    /\ result.kind = "HTTPException"
    /\ result.status_code = 599

\* C2: every failure raised while the request is sent is mapped, in this order:
\* TooManyRedirects to the 404 "not found" outcome, a connection-level failure
\* (DNS, refused, reset) to the 500 "connection error" outcome, anything else to
\* the 500 "unexpected fetch failure" outcome carrying the failure's message.
C2_TransportMapping ==
    (MakeRequestOver /\ Outcome.kind = "raise") =>
        IF Outcome.cause = "redirect_loop"
        THEN result = HTTPException(404, <<"Not found for url: ", call.url>>)
        ELSE IF Outcome.cause \in ConnectionCauses \cup {"raw_socket"}
        THEN result = HTTPException(500, <<"Connection error for url: ", call.url>>)
        ELSE result = HTTPException(500, <<"Error for url: ", call.url, ". ", Outcome.msg>>)

\* C3: every call of make_request performs exactly one pacing delay and exactly one
\* GET, the delay before the request, whatever the outcome; nothing is retried.
C3_OneDelayOneGet ==
    call.op \in FetchOps =>
        /\ pc = "sleep" => trace = <<>>
        /\ pc = "get" => (Len(trace) = 1 /\ trace[1].ev = "sleep")
        /\ pc \in {"parse", "assign", "done"} =>
              /\ Len(trace) = 2
              /\ trace[1].ev = "sleep"
              /\ DelayMin <= trace[1].tenths /\ trace[1].tenths <= DelayMax
              /\ trace[2].ev = "get"
              /\ trace[2].url = call.url

C3_Witness ==
    /\ call.op = "make_request"
    /\ pc = "done"
    /\ result.kind = "HTTPException"
    /\ Len(trace) = 2
    /\ trace[2].outcome.kind = "raise"
    /\ call.url # URL

ExtractOps ==
    {"get_list_by_xpath", "get_text_by_xpath", "raise_exception_if_not_found",
     "get_last_page_number"}

\* C7: no extraction call changes the tree or the bound address; the tree changes
\* only when a fetch on the instance replaces it with the tree parsed from the
\* response of that fetch.
C7_TreeSingleWriter ==
    [][/\ URL' = URL
       /\ call'.op \in ExtractOps => page' = page
       /\ page' # page =>
             /\ call.op = "fetch_and_parse"
             /\ Outcome.kind = "response"
             /\ page' = Some(convert_bsoup_to_page(request_url_bsoup(Outcome)))]_vars

C7_Witness ==
    /\ pc = "done"
    /\ call.op = "fetch_and_parse"
    /\ result.kind = "ElementTree"
    /\ page = Some(result.tree)
    /\ page.v.root = Outcome.content

\* a get_text_by_xpath call has ended on a path with at least one match
TextOver ==
    /\ pc = "done"
    /\ call.op = "get_text_by_xpath"
    /\ page.some
    /\ XPath(page.v, call.xpath) # <<>>

\* the trimmed, empties-removed match sequence of the call's path
TrimmedMatches ==
    SelectSeq([i \in 1..Len(XPath(page.v, call.xpath)) |-> trim(XPath(page.v, call.xpath)[i])],
              LAMBDA t : t # <<>>)

\* `element` of the call when the join/pos logic of line 140 is reached
CallWorking == Working(XPath(page.v, call.xpath), call.iloc, call.iloc_from, call.iloc_to)

\* the elements of s at the positions lo, ..., hi - 1 (counted from 0) that exist
SubRange(s, lo, hi) ==
    [k \in 1..(IF Min(hi, Len(s)) > lo THEN Min(hi, Len(s)) - lo ELSE 0) |-> s[lo + k]]

\* C4: with from_index and to_index supplied and at_index not, the working sequence
\* before the join/pos logic is the sub-range [from_index, to_index) of the
\* trimmed, empties-removed match sequence.
C4_SubRange ==
    (/\ TextOver
     /\ ~call.iloc.some /\ call.iloc_from.some /\ call.iloc_to.some
     /\ call.iloc_from.v >= 0 /\ call.iloc_to.v >= 0) =>
        /\ CallWorking.ok
        /\ CallWorking.v = SubRange(TrimmedMatches, call.iloc_from.v, call.iloc_to.v)

\* C5: with at_index = i in range, no other shaping option and the default pos,
\* the call returns the whole trimmed element at position i.
C5_AtIndexWholeElement ==
    (/\ TextOver
     /\ call.iloc.some /\ ~call.iloc_from.some /\ ~call.iloc_to.some /\ ~call.join_str.some
     /\ call.pos = 0
     /\ 0 <= call.iloc.v /\ call.iloc.v < Len(TrimmedMatches)) =>
        result = RetStr(TrimmedMatches[call.iloc.v + 1])

\* C6: on a path with a match, pos beyond the end with no shaping option returns
\* null and raises nothing; at_index beyond the end raises an index error and
\* returns nothing.
C6_OutOfRangeAsymmetry ==
    TextOver =>
        /\ (/\ ~call.iloc.some /\ ~call.iloc_from.some /\ ~call.iloc_to.some
            /\ ~call.join_str.some
            /\ call.pos >= Len(TrimmedMatches)) => result = RetNone
        /\ (call.iloc.some /\ call.iloc.v >= Len(TrimmedMatches)) => result = Raise("IndexError")

C6_Witness ==
    /\ TextOver
    /\ call.iloc.some /\ ~call.iloc_from.some /\ ~call.iloc_to.some /\ ~call.join_str.some
    /\ Len(TrimmedMatches) = 2
    /\ call.iloc.v = 2
    /\ call.pos = 0
    /\ result = Raise("IndexError")

\* the strings of parts in order, sep between neighbours
RECURSIVE Joined(_, _, _)
Joined(sep, parts, n) ==
    IF n = 0 THEN <<>>
    ELSE IF n = 1 THEN parts[1]
    ELSE Joined(sep, parts, n - 1) \o sep \o parts[n]

LastPageOver == pc = "done" /\ call.op = "get_last_page_number" /\ page.some

\* the text_by_path value of a locator appended to the call's prefix
LocatorText(locator) ==
    get_text_by_xpath_value(page.v, call.xpath_base \o locator, 0, None, None, None, None)

\* the longest suffix of s holding neither "=" nor "/"
RECURSIVE PageToken(_)
PageToken(s) ==
    IF s = <<>> \/ s[Len(s)] \in {"=", "/"} THEN <<>>
    ELSE PageToken(SubSeq(s, 1, Len(s) - 1)) \o <<s[Len(s)]>>

\* the outcome the text of the deciding locator gives
Parsed(text) ==
    IF PyInt(PageToken(text)).ok THEN RetInt(PyInt(PageToken(text)).v) ELSE Raise("ValueError")

\* C8 as amended: the first locator, "last page" then "active page", whose text is
\* non-null decides; the result is the integer after its final "=" and "/", or a
\* failure when there is none; with no text from either the result is 1.
C8_LastPageNumber ==
    LastPageOver =>
        IF LocatorText(PAGE_NUMBER_LAST).kind # "None"
        THEN result = Parsed(LocatorText(PAGE_NUMBER_LAST).v)
        ELSE IF LocatorText(PAGE_NUMBER_ACTIVE).kind # "None"
        THEN result = Parsed(LocatorText(PAGE_NUMBER_ACTIVE).v)
        ELSE result = RetInt(1)

\* C8: as above, and the result is 1 exactly when neither locator yields text.
C8_OneExactlyWhenNoText ==
    LastPageOver =>
        /\ C8_LastPageNumber
        /\ result = RetInt(1) <=>
              (/\ LocatorText(PAGE_NUMBER_LAST).kind = "None"
               /\ LocatorText(PAGE_NUMBER_ACTIVE).kind = "None")

C8_Witness ==
    /\ LastPageOver
    /\ call.xpath_base = DivBase
    /\ LocatorText(PAGE_NUMBER_LAST) = RetStr(HrefPage7)
    /\ LocatorText(PAGE_NUMBER_ACTIVE) = RetStr(HrefPage1)
    /\ result = RetInt(7)

====
